---- MODULE Spec2Model ----
(***************************************************************************)
(* Chat subsystem of the pets backend: the Conversation Directory          *)
(* (ConversationRepository), the dual-store Message Store                  *)
(* (MessageRepository), the Chat Service and the socket handlers.          *)
(*                                                                         *)
(* Strings of the program (user ids, message text, previews) are sequences *)
(* of code units, so that sorting and substring are the real operations.   *)
(* Every `await` of sendMessage is a separate step: other requests         *)
(* interleave there.                                                       *)
(***************************************************************************)
EXTENDS Integers, Sequences, FiniteSets, TLC

\* ------------------------------------------------------------------ bounds
\* Number of send_message invocations (each runs once, concurrently).
MaxSends == 2

\* ------------------------------------------------------------- input sets
\* Two user ids, "ab" and "b" as code-unit sequences: the lexicographic order
\* (ab < b) differs from the order by length.
Users == {<<1, 2>>, <<2>>}

\* `undefined` for an optional string column.
NoUser == <<>>

Procs == 1..MaxSends

\* Number of sockets that connect (each connects once).
MaxConns == 2

Conns == 1..MaxConns

\* Number of messages_read commands handled.
MaxReads == 1

\* Number of typing events emitted.
MaxTypings == 2

\* Number of instants the clock passes through.
MaxTime == 2

\* No socket (the empty socketId of an offline record).
NoConn == 0

\* A handshake carries no token, one that fails verification, or one that
\* verifies to a user id.
Tokens ==
    {[kind |-> "none", uid |-> NoUser], [kind |-> "invalid", uid |-> NoUser]}
        \cup {[kind |-> "valid", uid |-> u] : u \in Users}

\* Commands that carry an acknowledgment callback.
AckCommands ==
    {"send_message", "messages_read", "fetch_messages", "fetch_conversations",
     "delete_message", "get_unread_count", "check_typing", "get_user_status",
     "get_users_status"}

\* What a client sends with a command: well-formed data, data that lacks a
\* required field, or no data object at all.
Inputs == {"ok", "invalid", "malformed"}

\* Message types a send is drawn from (MessageType has four members).
SendTypes == {"text"}

\* Text bodies a send is drawn from.
Contents == {<<"H", "i">>}

VARIABLES
    conversations,  \* rows of table "conversations"
    payloads,       \* documents of the Message collection (payload store)
    metadata,       \* rows of table "message_metadata"
    send,           \* per invocation of the send_message handler: its locals
    pushed,         \* events emitted to user rooms
    conn,           \* per socket: handshake token, state, authenticated user
    rooms,          \* room membership: <<socket, room>>
    presence,       \* presence records of the ephemeral store, by user id
    broadcasts,     \* user_online / user_offline broadcasts, with their origin
    cmd,            \* per socket: the command being handled and its acks
    typing,         \* typing records of the ephemeral store, by key
    now,            \* the clock that new Date() and the expiries read
    text            \* a message body and what sanitizeMessageContent makes of it

storeVars == <<conversations, payloads, metadata, send, pushed>>
gatewayVars == <<conn, rooms, presence, broadcasts, cmd, typing>>
vars == <<storeVars, gatewayVars, now, text>>

\* ------------------------------------------------------- pure helpers

\* String comparison a <= b by code units (what Array.prototype.sort uses).
RECURSIVE LexLeq(_, _)
LexLeq(a, b) ==
    IF a = <<>> THEN TRUE
    ELSE IF b = <<>> THEN FALSE
    ELSE IF Head(a) < Head(b) THEN TRUE
    ELSE IF Head(a) > Head(b) THEN FALSE
    ELSE LexLeq(Tail(a), Tail(b))

\* A plausible slip: the pair is used as given, not sorted.
sortPairUnsorted(user1Id, user2Id) == <<user1Id, user2Id>>

\* [user1Id, user2Id].sort()
sortPair(user1Id, user2Id) ==
    IF LexLeq(user1Id, user2Id) THEN <<user1Id, user2Id>> ELSE <<user2Id, user1Id>>

\* String.prototype.substring(0, n)
substring0(s, n) == IF Len(s) <= n THEN s ELSE SubSeq(s, 1, n)

PreviewLimit == 500
TextPreviewLength == 100

ImageLabel == <<"*", " ", "I", "m", "a", "g", "e">>
VideoLabel == <<"*", " ", "V", "i", "d", "e", "o">>
FileLabel == <<"*", " ", "F", "i", "l", "e">>
DefaultLabel == <<"M", "e", "s", "s", "a", "g", "e">>

\* An optional field that is absent (undefined), such as encryptedContent.
NoContent == <<"undefined">>

\* ChatService.generateMessagePreview(params): the preview of a file is the
\* paperclip and params.fileName || "File".
generateMessagePreview(params) ==
    CASE params.messageType = "text" -> substring0(params.content, TextPreviewLength)
      [] params.messageType = "image" -> ImageLabel
      [] params.messageType = "video" -> VideoLabel
      [] params.messageType = "file" ->
            IF params.fileName \in {NoContent, <<>>}
            THEN FileLabel
            ELSE <<"*", " ">> \o params.fileName
      [] OTHER -> DefaultLabel

\* --------------------------------------------------------- message content

\* String.prototype.replace(/ch/g, replacement): every occurrence of the
\* character is replaced, computed on the two halves of the string.
RECURSIVE replaceAll(_, _, _)
replaceAll(content, ch, replacement) ==
    IF content = <<>> THEN <<>>
    ELSE IF Len(content) = 1
         THEN (IF content[1] = ch THEN replacement ELSE content)
         ELSE replaceAll(SubSeq(content, 1, Len(content) \div 2), ch, replacement)
                 \o replaceAll(SubSeq(content, Len(content) \div 2 + 1, Len(content)),
                               ch, replacement)

\* A plausible slip: the ampersand is escaped as well, after the others.
sanitizeEscapingAmpersand(content) ==
    replaceAll(
        replaceAll(
            replaceAll(
                replaceAll(
                    replaceAll(
                        replaceAll(content, "<", <<"&", "l", "t", ";">>),
                        ">", <<"&", "g", "t", ";">>),
                    "\"", <<"&", "q", "u", "o", "t", ";">>),
                "'", <<"&", "#", "x", "2", "7", ";">>),
            "/", <<"&", "#", "x", "2", "F", ";">>),
        "&", <<"&", "a", "m", "p", ";">>)

\* sanitizeMessageContent: the five replacements, in the order of the code.
sanitizeMessageContent(content) ==
    replaceAll(
        replaceAll(
            replaceAll(
                replaceAll(
                    replaceAll(content, "<", <<"&", "l", "t", ";">>),
                    ">", <<"&", "g", "t", ";">>),
                "\"", <<"&", "q", "u", "o", "t", ";">>),
            "'", <<"&", "#", "x", "2", "7", ";">>),
        "/", <<"&", "#", "x", "2", "F", ";">>)

\* String.prototype.trim, for the space character.
RECURSIVE trimStart(_)
trimStart(content) ==
    IF content # <<>> /\ Head(content) = " " THEN trimStart(Tail(content)) ELSE content

RECURSIVE trimEnd(_)
trimEnd(content) ==
    IF content # <<>> /\ content[Len(content)] = " "
    THEN trimEnd(SubSeq(content, 1, Len(content) - 1))
    ELSE content

trim(content) == trimEnd(trimStart(content))

MAX_MESSAGE_LENGTH == 5000

\* validateMessageContent: the error it throws, or "" when it returns true.
validateMessageContent(content) ==
    IF content = <<>> \/ Len(trim(content)) = 0 THEN "Message content cannot be empty"
    ELSE IF Len(content) > MAX_MESSAGE_LENGTH
         THEN "Message exceeds maximum length of 5000 characters"
         ELSE ""

RECURSIVE reverse(_)
reverse(content) ==
    IF content = <<>> THEN <<>> ELSE reverse(Tail(content)) \o <<Head(content)>>

\* The header of a ciphertext produced with a passphrase.
Salted == "Salted__"

\* encryptMessage(plaintext).encrypted. The cipher is a bijection on strings
\* under the process's key; reversal stands for it.
encryptMessage(plaintext) == <<Salted>> \o reverse(plaintext)

\* A plausible slip: the ciphertext is returned with its header taken off.
decryptMessageNoCipher(encrypted) ==
    IF encrypted = <<>> \/ Head(encrypted) # Salted \/ Tail(encrypted) = <<>>
    THEN [ok |-> FALSE, text |-> <<>>]
    ELSE [ok |-> TRUE, text |-> Tail(encrypted)]

\* decryptMessage(encrypted): the plaintext, or a throw when the bytes do not
\* decrypt to a non-empty string.
decryptMessage(encrypted) ==
    IF encrypted = <<>> \/ Head(encrypted) # Salted \/ Tail(encrypted) = <<>>
    THEN [ok |-> FALSE, text |-> <<>>]
    ELSE [ok |-> TRUE, text |-> reverse(Tail(encrypted))]

Placeholder == <<"[Encrypted message]">>

\* formatMessage(message, metadata): content is the decrypted body of a text
\* message that has one, the placeholder when decryption throws, and
\* undefined otherwise.
formatMessage(message, meta) ==
    [id |-> meta.id,
     conversationId |-> meta.conversationId,
     senderId |-> meta.senderId,
     receiverId |-> meta.receiverId,
     messageType |-> meta.messageType,
     content |-> IF message.encryptedContent \notin {NoContent, <<>>}
                    /\ message.messageType = "text"
                 THEN (IF decryptMessage(message.encryptedContent).ok
                       THEN decryptMessage(message.encryptedContent).text
                       ELSE Placeholder)
                 ELSE NoContent,
     mediaUrl |-> message.mediaUrl,
     mediaType |-> message.mediaType,
     mediaSize |-> message.mediaSize,
     fileName |-> message.fileName,
     thumbnailUrl |-> message.thumbnailUrl,
     isDelivered |-> meta.isDelivered,
     isRead |-> meta.isRead,
     deliveredAt |-> meta.deliveredAt,
     readAt |-> meta.readAt,
     createdAt |-> meta.createdAt]

\* ------------------------------------------------------------ initial state
\* An absent mediaSize (sizes of files are positive).
NoSize == 0

\* The media fields of a command that names none.
NoMedia ==
    [mediaUrl |-> NoContent, mediaType |-> NoContent, mediaSize |-> NoSize,
     fileName |-> NoContent, thumbnailUrl |-> NoContent]

\* The media fields of a command that names an uploaded picture.
Picture ==
    [mediaUrl |-> <<"u">>, mediaType |-> <<"image/png">>, mediaSize |-> 1,
     fileName |-> <<"f">>, thumbnailUrl |-> <<"t">>]

NoAttachment == {NoMedia}

IdleSend ==
    [pc |-> "idle", senderId |-> NoUser, receiverId |-> NoUser,
     messageType |-> "text", content |-> <<>>,
     conversationId |-> 0, sawBlocked |-> FALSE,
     mediaUrl |-> NoContent, mediaType |-> NoContent, mediaSize |-> NoSize,
     fileName |-> NoContent, thumbnailUrl |-> NoContent,
     encryptedContent |-> NoContent,
     payloadId |-> 0, metadataId |-> 0, error |-> "", acks |-> <<>>,
     returned |-> NoContent]

\* No presence record under the user's key (GET returns null).
NoStatus ==
    [exists |-> FALSE, online |-> FALSE, socketId |-> NoConn, lastSeen |-> 0, expiresAt |-> 0]

TYPING_PREFIX == "typing:"

\* Conversation ids that clients name in typing commands.
TypingConversations == {1, 2}

\* The key `${TYPING_PREFIX}${conversationId}:${userId}`, as the template's
\* parts; user ids hold no ":", so the parts can be told apart in the string.
typingKey(conversationId, userId) == <<TYPING_PREFIX, conversationId, ":", userId>>

TypingKeys == {typingKey(c, u) : c \in TypingConversations, u \in Users}

\* No typing record under a key.
NoTyping == [exists |-> FALSE, expiresAt |-> 0]

\* No message body was handed to sanitizeMessageContent yet.
NoText == [input |-> NoContent, once |-> NoContent, twice |-> NoContent]

\* No data of a typing command.
NoData == [conversationId |-> 0, userId |-> NoUser]

IdleCmd ==
    [socket |-> NoConn, name |-> "", pc |-> "idle", acks |-> <<>>, status |-> NoStatus,
     data |-> NoData, error |-> ""]

Init ==
    /\ conversations = {}
    /\ payloads = {}
    /\ metadata = {}
    /\ send = [p \in Procs |-> IdleSend]
    /\ pushed = {}
    /\ conn = [c \in Conns |-> [state |-> "Idle", token |-> [kind |-> "none", uid |-> NoUser],
                                userId |-> NoUser, error |-> ""]]
    /\ rooms = {}
    /\ presence = [u \in Users |-> NoStatus]
    /\ broadcasts = {}
    /\ cmd = IdleCmd
    /\ typing = [key \in TypingKeys |-> NoTyping]
    /\ now = 1
    /\ text = NoText

\* ------------------------------------------------- Conversation Directory

\* A plausible slip: the where-clause matches on the first participant only.
matchingFirstParticipant(pair) ==
    {c \in conversations : c.participant1Id = pair[1]}

\* The rows findOne's where-clause matches: either ordering of the pair.
matchingConversations(pair) ==
    {c \in conversations :
        \/ (c.participant1Id = pair[1] /\ c.participant2Id = pair[2])
        \/ (c.participant1Id = pair[2] /\ c.participant2Id = pair[1])}

\* The unique index on (participant1Id, participant2Id).
violatesUniqueIndex(p1, p2) ==
    \E c \in conversations : c.participant1Id = p1 /\ c.participant2Id = p2

newConversation(p1, p2) ==
    [id |-> Cardinality(conversations) + 1,
     participant1Id |-> p1, participant2Id |-> p2,
     lastMessageAt |-> 0, lastMessagePreview |-> <<>>,
     isBlocked |-> FALSE, blockedBy |-> NoUser]

\* repository.update(criteria, partial) on one row: the columns named by the
\* partial entity are set, the others keep their values.
merge(row, partial) ==
    [column \in DOMAIN row |->
        IF column \in DOMAIN partial THEN partial[column] ELSE row[column]]

\* repository.update(id, partial): rows with another id are untouched.
updateConversation(conversationId, partial) ==
    {IF c.id = conversationId THEN merge(c, partial) ELSE c : c \in conversations}

\* ------------------------------------------------------ send_message handler
\* Between two awaits the handler runs without interruption, so one action
\* is one store operation together with the code that runs when it settles.

\* A throw inside sendMessage: logged, rethrown, and answered by the handler's
\* catch with callback({ success: false, error }).
Fail(p, message) ==
    send' = [send EXCEPT ![p].pc = "done", ![p].error = message,
                         ![p].acks = Append(@, "failure")]

\* The send_message command of a sender for a receiver arrives with its
\* required fields present, and findOrCreateConversation looks the pair up.
\* Invocations are interchangeable: they are numbered in order of arrival.
SendMessageBetween(p, pairs, types, contents, medias, storeFails, concurrent) ==
    /\ send[p].pc = "idle"
    /\ \A q \in Procs : q < p => send[q].pc # "idle"
    /\ concurrent \/ \A q \in Procs : send[q].pc \in {"idle", "done"}
    /\ \E pair \in pairs, t \in types, txt \in contents, media \in medias :
        /\ LET s == pair[1]
               r == pair[2]
               params == [send[p] EXCEPT !.senderId = s, !.receiverId = r,
                              !.messageType = t,
                              !.content = txt,
                              !.mediaUrl = media.mediaUrl,
                              !.mediaType = media.mediaType,
                              !.mediaSize = media.mediaSize,
                              !.fileName = media.fileName,
                              !.thumbnailUrl = media.thumbnailUrl]
               found == matchingConversations(sortPair(s, r))
           IN \/ /\ found = {}
                 /\ send' = [send EXCEPT ![p] = [params EXCEPT !.pc = "save"]]
              \/ \E c \in found :
                    send' = [send EXCEPT ![p] = [params EXCEPT !.pc = "isBlocked",
                                                               !.conversationId = c.id]]
              \/ /\ storeFails
                 /\ send' = [send EXCEPT ![p] = [params EXCEPT !.pc = "done",
                                       !.error = "storage", !.acks = <<"failure">>]]
    /\ UNCHANGED <<conversations, payloads, metadata, pushed, gatewayVars, now, text>>

\* Sender and receiver are two users.
OtherUser == {pair \in Users \X Users : pair[1] # pair[2]}

\* Sender and receiver are any users: a user may send to their own id.
AnyUser == Users \X Users

\* A send_message command from one user to the other.
SendMessageReceived(p, types, contents, medias, storeFails, concurrent) ==
    SendMessageBetween(p, OtherUser, types, contents, medias, storeFails, concurrent)

\* findOrCreateConversation: the insert of a pair the lookup did not find.
SaveConversation(p, storeFails) ==
    /\ send[p].pc = "save"
    /\ LET pair == sortPair(send[p].senderId, send[p].receiverId)
           row == newConversation(pair[1], pair[2])
       IN \/ /\ violatesUniqueIndex(pair[1], pair[2])
             /\ Fail(p, "duplicate key")
             /\ UNCHANGED conversations
          \/ /\ ~violatesUniqueIndex(pair[1], pair[2])
             /\ conversations' = conversations \cup {row}
             /\ send' = [send EXCEPT ![p].pc = "isBlocked", ![p].conversationId = row.id]
          \/ /\ storeFails
             /\ Fail(p, "storage")
             /\ UNCHANGED conversations
    /\ UNCHANGED <<payloads, metadata, pushed, gatewayVars, now, text>>

\* The stored flag of the conversation (false when no row has the id).
isBlockedFlag(conversationId) ==
    \E c \in conversations : c.id = conversationId /\ c.isBlocked

\* isConversationBlocked: conversation?.isBlocked || false, and false when
\* the read throws.
isConversationBlocked(conversationId, readFails) ==
    IF readFails THEN FALSE ELSE isBlockedFlag(conversationId)

\* sendMessage encrypts a text body that is provided (a non-empty string).
hasTextContent(params) == params.content # <<>> /\ params.messageType = "text"

\* The blocked check of sendMessage and, when it lets the send through, the
\* code up to the call of createMessage: a provided text body is validated,
\* sanitized and encrypted. sawBlocked records the stored flag at the moment
\* of the check.
BlockedCheck(p, readFails) ==
    /\ send[p].pc = "isBlocked"
    /\  IF isConversationBlocked(send[p].conversationId, readFails)
        THEN send' = [send EXCEPT ![p].pc = "done", ![p].sawBlocked = TRUE,
                        ![p].error = "Cannot send message to blocked conversation",
                        ![p].acks = Append(@, "failure")]
        ELSE IF hasTextContent(send[p]) /\ validateMessageContent(send[p].content) # ""
        THEN send' = [send EXCEPT ![p].pc = "done",
                        ![p].sawBlocked = isBlockedFlag(send[p].conversationId),
                        ![p].error = validateMessageContent(send[p].content),
                        ![p].acks = Append(@, "failure")]
        ELSE send' = [send EXCEPT ![p].pc = "mongoSave",
                        ![p].sawBlocked = isBlockedFlag(send[p].conversationId),
                        ![p].encryptedContent =
                            IF hasTextContent(send[p])
                            THEN encryptMessage(sanitizeMessageContent(send[p].content))
                            ELSE NoContent]
    /\ UNCHANGED <<conversations, payloads, metadata, pushed, gatewayVars, now, text>>

\* The step of sendMessage around isConversationBlocked, whose read may throw.
IsConversationBlocked(p, storeFails) ==
    \E readFails \in {FALSE, storeFails} : BlockedCheck(p, readFails)

\* ------------------------------------------------------------ Message Store

\* A plausible slip: the document's id is a per-sender sequence number.
newPayloadNumberedPerSender(data) ==
    [id |-> Cardinality({d \in payloads : d.senderId = data.senderId}) + 1,
     conversationId |-> data.conversationId,
     senderId |-> data.senderId,
     receiverId |-> data.receiverId,
     messageType |-> data.messageType,
     encryptedContent |-> data.encryptedContent,
     mediaUrl |-> data.mediaUrl,
     mediaType |-> data.mediaType,
     mediaSize |-> data.mediaSize,
     fileName |-> data.fileName,
     thumbnailUrl |-> data.thumbnailUrl]

\* new Message({...}) of createMessage
newPayload(data) ==
    [id |-> Cardinality(payloads) + 1,
     conversationId |-> data.conversationId,
     senderId |-> data.senderId,
     receiverId |-> data.receiverId,
     messageType |-> data.messageType,
     encryptedContent |-> data.encryptedContent,
     mediaUrl |-> data.mediaUrl,
     mediaType |-> data.mediaType,
     mediaSize |-> data.mediaSize,
     fileName |-> data.fileName,
     thumbnailUrl |-> data.thumbnailUrl]

\* createMessage: the payload document is saved first.
MongoSave(p, storeFails) ==
    /\ send[p].pc = "mongoSave"
    /\ \/ /\ payloads' = payloads \cup {newPayload(send[p])}
          /\ send' = [send EXCEPT ![p].pc = "metadataSave",
                                  ![p].payloadId = newPayload(send[p]).id]
       \/ /\ storeFails
          /\ Fail(p, "storage")
          /\ UNCHANGED payloads
    /\ UNCHANGED <<conversations, metadata, pushed, gatewayVars, now, text>>

\* NULL in a nullable timestamp column (the clock starts at 1).
NoDate == 0

\* A plausible slip: the row's own id is stored as the reference.
newMetadataOwnId(data) ==
    [id |-> Cardinality(metadata) + 1,
     conversationId |-> data.conversationId,
     mongoMessageId |-> Cardinality(metadata) + 2,
     senderId |-> data.senderId,
     receiverId |-> data.receiverId,
     messageType |-> data.messageType,
     isDelivered |-> FALSE, isRead |-> FALSE, isDeleted |-> FALSE,
     deliveredAt |-> NoDate, readAt |-> NoDate,
     createdAt |-> Cardinality(metadata) + 1]

\* metadataRepository.create({...}) of createMessage, with the column
\* defaults. createdAt is the insertion instant: inserts are numbered in order.
newMetadata(data) ==
    [id |-> Cardinality(metadata) + 1,
     conversationId |-> data.conversationId,
     mongoMessageId |-> data.payloadId,
     senderId |-> data.senderId,
     receiverId |-> data.receiverId,
     messageType |-> data.messageType,
     isDelivered |-> FALSE, isRead |-> FALSE, isDeleted |-> FALSE,
     deliveredAt |-> NoDate, readAt |-> NoDate,
     createdAt |-> Cardinality(metadata) + 1]

\* A plausible slip: the row is inserted although the save throws.
MetadataSaveInsertsThenFails(p, storeFails) ==
    /\ send[p].pc = "metadataSave"
    /\ \/ /\ metadata' = metadata \cup {newMetadata(send[p])}
          /\ send' = [send EXCEPT ![p].pc = "updateLastMessage",
                                  ![p].metadataId = newMetadata(send[p]).id]
       \/ /\ storeFails
          /\ Fail(p, "storage")
          /\ metadata' = metadata \cup {newMetadata(send[p])}
    /\ UNCHANGED <<conversations, payloads, pushed, gatewayVars, now, text>>

\* createMessage: then the metadata row, carrying the payload's id.
MetadataSave(p, storeFails) ==
    /\ send[p].pc = "metadataSave"
    /\ \/ /\ metadata' = metadata \cup {newMetadata(send[p])}
          /\ send' = [send EXCEPT ![p].pc = "updateLastMessage",
                                  ![p].metadataId = newMetadata(send[p]).id]
       \/ /\ storeFails
          /\ Fail(p, "storage")
          /\ UNCHANGED metadata
    /\ UNCHANGED <<conversations, payloads, pushed, gatewayVars, now, text>>

createdAtOf(metadataId) ==
    (CHOOSE m \in metadata : m.id = metadataId).createdAt

\* The entities createMessage returned to this invocation: the payload
\* document and the metadata row as they were saved.
savedMessage(p) == CHOOSE d \in payloads : d.id = send[p].payloadId

savedMetadata(p) ==
    merge(CHOOSE m \in metadata : m.id = send[p].metadataId,
          [isDelivered |-> FALSE, isRead |-> FALSE, isDeleted |-> FALSE,
           deliveredAt |-> NoDate, readAt |-> NoDate])

\* A plausible slip: the event goes to the room of the sender.
newMessageEventToSender(params, message) ==
    [room |-> params.senderId, event |-> "new_message",
     messageId |-> message.id, message |-> message]

\* io.to(receiverId).emit("new_message", message)
newMessageEvent(params, message) ==
    [room |-> params.receiverId, event |-> "new_message",
     messageId |-> message.id, message |-> message]

\* updateLastMessage with the preview of this send; then sendMessage returns
\* formatMessage(message, metadata), the handler acknowledges with it and
\* pushes it as new_message to the receiver's room.
\* A throw of the emit lands in the same catch as every other throw.
UpdateLastMessage(p, storeFails) ==
    /\ send[p].pc = "updateLastMessage"
    /\ LET preview == generateMessagePreview(send[p])
           change == [lastMessagePreview |-> substring0(preview, PreviewLimit),
                      lastMessageAt |-> createdAtOf(send[p].metadataId)]
           message == formatMessage(savedMessage(p), savedMetadata(p))
       IN \/ /\ conversations' = updateConversation(send[p].conversationId, change)
             /\ send' = [send EXCEPT ![p].pc = "done", ![p].acks = Append(@, "success"),
                                     ![p].returned = message]
             /\ pushed' = pushed \cup {newMessageEvent(send[p], message)}
          \/ /\ storeFails
             /\ conversations' = updateConversation(send[p].conversationId, change)
             /\ send' = [send EXCEPT ![p].pc = "done", ![p].error = "emit",
                                     ![p].acks = <<"success", "failure">>,
                                     ![p].returned = message]
             /\ UNCHANGED pushed
          \/ /\ storeFails
             /\ Fail(p, "storage")
             /\ UNCHANGED <<conversations, pushed>>
    /\ UNCHANGED <<payloads, metadata, gatewayVars, now, text>>

\* ------------------------------------------- other Message Store operations

\* Ids a client may name: those of stored rows and one that names no row.
MessageIds == 1..(Cardinality(metadata) + 1)

ConversationIds == 1..(Cardinality(conversations) + 1)

\* metadataRepository.update(criteria, partial) over the rows whose id is in ids.
updateMetadata(ids, partial) ==
    {IF m.id \in ids THEN merge(m, partial) ELSE m : m \in metadata}

\* markAsDelivered's partial update { isDelivered: true, deliveredAt: new Date() }
setDelivered == [isDelivered |-> TRUE, deliveredAt |-> now]

\* A plausible slip: the timestamp is written but not the flag.
setReadStampOnly == [readAt |-> now]

\* A plausible slip: marking as read rewrites the delivered flag as well.
setReadResetsDelivered == [isRead |-> TRUE, readAt |-> now, isDelivered |-> FALSE]

\* markAsRead's partial update { isRead: true, readAt: new Date() }
setRead == [isRead |-> TRUE, readAt |-> now]

\* deleteMessage's partial update { isDeleted: true }
setDeleted == [isDeleted |-> TRUE]

\* ChatService.markMessageAsDelivered(messageId)
MarkMessageAsDelivered(messageId) ==
    /\ metadata' = updateMetadata({messageId}, setDelivered)
    /\ UNCHANGED <<conversations, payloads, send, pushed, gatewayVars, now, text>>

\* markMessagesAsRead (resolver, route and socket all end in markAsRead).
MarkMessagesAsRead(messageIds) ==
    /\ metadata' = updateMetadata(messageIds, setRead)
    /\ UNCHANGED <<conversations, payloads, send, pushed, gatewayVars, now, text>>

\* A plausible slip: the sender check is left out.
deleteOutcomeNoCheck(messageId, userId) ==
    IF ~\E m \in metadata : m.id = messageId THEN "Message not found" ELSE "ok"

\* deleteMessage: what the lookup and the sender check decide.
deleteOutcome(messageId, userId) ==
    IF ~\E m \in metadata : m.id = messageId THEN "Message not found"
    ELSE IF (CHOOSE m \in metadata : m.id = messageId).senderId # userId
         THEN "Unauthorized to delete this message"
         ELSE "ok"

\* deleteMessage(messageId, userId)
DeleteMessage(messageId, userId) ==
    /\ metadata' = IF deleteOutcome(messageId, userId) = "ok"
                   THEN updateMetadata({messageId}, setDeleted)
                   ELSE metadata
    /\ UNCHANGED <<conversations, payloads, send, pushed, gatewayVars, now, text>>

\* blockConversation(conversationId, userId)
BlockConversation(conversationId, userId) ==
    /\ conversations' = updateConversation(conversationId,
                            [isBlocked |-> TRUE, blockedBy |-> userId])
    /\ UNCHANGED <<payloads, metadata, send, pushed, gatewayVars, now, text>>

\* unblockConversation(conversationId): update(id, { isBlocked: false,
\* blockedBy: undefined }). A property whose value is undefined is left out
\* of the UPDATE, so the blockedBy column keeps its value.
UnblockConversation(conversationId) ==
    /\ conversations' = updateConversation(conversationId, [isBlocked |-> FALSE])
    /\ UNCHANGED <<payloads, metadata, send, pushed, gatewayVars, now, text>>

\* ---------------------------------------------------------- read operations

\* A plausible slip: the oldest row comes first.
RECURSIVE sortByCreatedAtAsc(_)
sortByCreatedAtAsc(rows) ==
    IF rows = {} THEN <<>>
    ELSE LET oldest == CHOOSE m \in rows : \A n \in rows : m.createdAt <= n.createdAt
         IN <<oldest>> \o sortByCreatedAtAsc(rows \ {oldest})

\* order: { createdAt: "DESC" }
RECURSIVE sortByCreatedAtDesc(_)
sortByCreatedAtDesc(rows) ==
    IF rows = {} THEN <<>>
    ELSE LET latest == CHOOSE m \in rows : \A n \in rows : n.createdAt <= m.createdAt
         IN <<latest>> \o sortByCreatedAtDesc(rows \ {latest})

\* where: { conversationId, isDeleted: false }
historyWhere(m, conversationId) ==
    m.conversationId = conversationId /\ m.isDeleted = FALSE

\* getMessagesByConversation(conversationId, page, limit): the page of
\* metadata rows, each joined with its payload, rows without one dropped.
getMessagesByConversation(conversationId, page, limit) ==
    LET skip == (page - 1) * limit
        metadataList == sortByCreatedAtDesc({m \in metadata : historyWhere(m, conversationId)})
        last == IF skip + limit < Len(metadataList) THEN skip + limit ELSE Len(metadataList)
        pageRows == SubSeq(metadataList, skip + 1, last)
        hasMessage(m) == \E d \in payloads : d.id = m.mongoMessageId
        found == SelectSeq(pageRows, hasMessage)
    IN [messages |-> [i \in 1..Len(found) |->
                        [message |-> CHOOSE d \in payloads : d.id = found[i].mongoMessageId,
                         metadata |-> found[i]]],
        total |-> Len(metadataList)]

\* A plausible slip: a body that fails to decrypt fails the whole call.
getConversationHistoryRethrowing(conversationId, page, limit) ==
    LET result == getMessagesByConversation(conversationId, page, limit)
        decrypts(item) ==
            (item.message.encryptedContent \notin {NoContent, <<>>}
                /\ item.message.messageType = "text")
            => decryptMessage(item.message.encryptedContent).ok
    IN IF \A i \in DOMAIN result.messages : decrypts(result.messages[i])
       THEN [ok |-> TRUE,
             messages |-> [i \in DOMAIN result.messages |->
                             formatMessage(result.messages[i].message,
                                           result.messages[i].metadata)],
             total |-> result.total]
       ELSE [ok |-> FALSE, messages |-> <<>>, total |-> 0]

\* getConversationHistory(conversationId, page, limit): the page of the
\* repository with every item formatted; it throws only when the repository
\* call does.
getConversationHistory(conversationId, page, limit) ==
    LET result == getMessagesByConversation(conversationId, page, limit)
    IN [ok |-> TRUE,
        messages |-> [i \in DOMAIN result.messages |->
                        formatMessage(result.messages[i].message,
                                      result.messages[i].metadata)],
        total |-> result.total]

\* A plausible slip: soft-deleted rows are counted as unread.
unreadWhereDeletedToo(m, userId, conversationId) ==
    /\ m.receiverId = userId
    /\ m.isRead = FALSE
    /\ (conversationId # 0 => m.conversationId = conversationId)

\* getUnreadCount's where-clause; conversationId 0 stands for "not given".
unreadWhere(m, userId, conversationId) ==
    /\ m.receiverId = userId
    /\ m.isRead = FALSE
    /\ m.isDeleted = FALSE
    /\ (conversationId # 0 => m.conversationId = conversationId)

\* getUnreadCount(userId, conversationId?): the count, or 0 when the query
\* throws.
getUnreadCount(userId, conversationId, queryFails) ==
    IF queryFails THEN 0
    ELSE Cardinality({m \in metadata : unreadWhere(m, userId, conversationId)})

\* One step of one send_message invocation. storeFails: whether a store
\* operation (or the emit) may throw; concurrent: whether a command may
\* arrive while another invocation is between its first and last step.
SendStep(p, types, contents, medias, storeFails, concurrent) ==
    \/ SendMessageReceived(p, types, contents, medias, storeFails, concurrent)
    \/ SaveConversation(p, storeFails)
    \/ IsConversationBlocked(p, storeFails)
    \/ MongoSave(p, storeFails)
    \/ MetadataSave(p, storeFails)
    \/ UpdateLastMessage(p, storeFails)

\* A block request of one of the users in blockers.
Block(blockers) ==
    \E conversationId \in ConversationIds, userId \in blockers :
        BlockConversation(conversationId, userId)

Unblock == \E conversationId \in ConversationIds : UnblockConversation(conversationId)

MarkDelivered == \E messageId \in MessageIds : MarkMessageAsDelivered(messageId)

MarkRead ==
    \E messageIds \in SUBSET MessageIds : messageIds # {} /\ MarkMessagesAsRead(messageIds)

Delete == \E messageId \in MessageIds, userId \in Users : DeleteMessage(messageId, userId)

\* sendMessage reads isBlocked and never blockedBy: where sends run
\* concurrently, the block requests are those of one user.
OneBlocker == {<<2>>}

\* Concurrent sends, with block and unblock requests arriving at any await.
Next ==
    \/ \E p \in Procs : SendStep(p, SendTypes, Contents, NoAttachment, TRUE, TRUE)
    \/ Block(OneBlocker)
    \/ Unblock

Spec == Init /\ [][Next]_vars

\* The Message Store's operations on stored messages, one request at a time,
\* the stores answering every request.
NextStore ==
    \/ \E p \in Procs : SendStep(p, SendTypes, Contents, NoAttachment, FALSE, FALSE)
    \/ MarkDelivered
    \/ MarkRead
    \/ Delete
    \/ Block(Users)
    \/ Unblock

SpecStore == Init /\ [][NextStore]_vars

\* Concurrent sends whose store operations may throw.
NextFaults == \E p \in Procs : SendStep(p, SendTypes, Contents, NoAttachment, TRUE, TRUE)

SpecFaults == Init /\ [][NextFaults]_vars

\* Concurrent sends between any users, to oneself included, whose store
\* operations may throw.
NextPairs ==
    \E p \in Procs :
        \/ SendMessageBetween(p, AnyUser, SendTypes, Contents, NoAttachment, TRUE, TRUE)
        \/ SaveConversation(p, TRUE)
        \/ IsConversationBlocked(p, TRUE)
        \/ MongoSave(p, TRUE)
        \/ MetadataSave(p, TRUE)
        \/ UpdateLastMessage(p, TRUE)

SpecPairs == Init /\ [][NextPairs]_vars

\* Concurrent sends with stores that answer, and no block request.
NextConcurrent == \E p \in Procs : SendStep(p, SendTypes, Contents, NoAttachment, FALSE, TRUE)

SpecConcurrent == Init /\ [][NextConcurrent]_vars

\* Time passes: a later new Date() reads a later instant.
Tick ==
    /\ now < MaxTime
    /\ now' = now + 1
    /\ UNCHANGED <<storeVars, gatewayVars, text>>

\* A text body one character longer than validateMessageContent accepts.
TooLongBody == [i \in 1..(MAX_MESSAGE_LENGTH + 1) |-> "a"]

\* Text bodies of a send_message command: absent or empty, blank, with every
\* character the sanitizer escapes, with an ampersand, and too long.
TextBodies ==
    {<<>>, <<" ", " ">>, <<"<", "b", ">", "\"", "'", "/">>, <<"a", "&", "l", "t", ";">>,
     TooLongBody}

\* Text and media sends.
TextAndImage == {"text", "image"}

\* Text sends with every kind of body, one at a time; a store operation or
\* the emit may throw.
NextContent == \E p \in Procs : SendStep(p, SendTypes, TextBodies, NoAttachment, TRUE, FALSE)

SpecContent == Init /\ [][NextContent]_vars

\* Bodies and media fields of the commands.
WithOrWithoutBody == {<<>>, <<"H", "i">>}
WithOrWithoutMedia == {NoMedia, Picture}

\* Sends of every combination of type, body and media fields, one at a time.
NextMedia ==
    \E p \in Procs :
        SendStep(p, TextAndImage, WithOrWithoutBody, WithOrWithoutMedia, FALSE, FALSE)

SpecMedia == Init /\ [][NextMedia]_vars

\* Every message type of the schema.
AllTypes == {"text", "image", "video", "file"}

\* A text body one character longer than the text preview.
LongBody == [i \in 1..(TextPreviewLength + 1) |-> "a"]

\* Text bodies: short, with markup, and longer than the preview.
PreviewBodies == {<<"H", "i">>, <<"<", "b", ">">>, LongBody}

\* The media fields of a command that names an uploaded file.
NamedFile ==
    [mediaUrl |-> <<"u">>, mediaType |-> <<"application/pdf">>, mediaSize |-> 1,
     fileName |-> <<"a", ".", "p", "d", "f">>, thumbnailUrl |-> NoContent]

WithOrWithoutFile == {NoMedia, NamedFile}

\* Sends of every type, one at a time, while time passes.
NextPreview ==
    \/ \E p \in Procs :
          SendStep(p, AllTypes, PreviewBodies, WithOrWithoutFile, FALSE, FALSE)
    \/ Tick

SpecPreview == Init /\ [][NextPreview]_vars

\* The reply of get_unread_count.
unreadReply(count) == [success |-> TRUE, unreadCount |-> count]

\* The reply of get_unread_count's catch.
unreadFailure == [success |-> FALSE, unreadCount |-> 0]

\* A plausible slip: the service rethrows the error of the count query.
GetUnreadCountRethrows(userId, storeFails) ==
    /\ \E queryFails \in {FALSE, storeFails} :
        cmd' = [IdleCmd EXCEPT
                   !.name = "get_unread_count", !.pc = "done",
                   !.data = [conversationId |-> 0, userId |-> userId],
                   !.error = IF queryFails THEN "storage" ELSE "",
                   !.acks = IF queryFails THEN <<unreadFailure>>
                            ELSE <<unreadReply(getUnreadCount(userId, 0, FALSE))>>]
    /\ UNCHANGED <<storeVars, conn, rooms, presence, broadcasts, typing, now, text>>

\* The get_unread_count handler of a socket authenticated as userId:
\* chatService.getUnreadCount, whose count is 0 when the query throws (the
\* error is logged), then the callback.
GetUnreadCount(userId, storeFails) ==
    /\ \E queryFails \in {FALSE, storeFails} :
        cmd' = [IdleCmd EXCEPT
                   !.name = "get_unread_count", !.pc = "done",
                   !.data = [conversationId |-> 0, userId |-> userId],
                   !.error = IF queryFails THEN "storage" ELSE "",
                   !.acks = <<unreadReply(getUnreadCount(userId, 0, queryFails))>>]
    /\ UNCHANGED <<storeVars, conn, rooms, presence, broadcasts, typing, now, text>>

\* Sends one at a time, reads, and get_unread_count commands whose count
\* query may throw.
NextUnread ==
    \/ \E p \in Procs : SendStep(p, SendTypes, Contents, NoAttachment, FALSE, FALSE)
    \/ MarkRead
    \/ \E userId \in Users : GetUnreadCount(userId, TRUE)

SpecUnread == Init /\ [][NextUnread]_vars

\* A body written under another ENCRYPTION_KEY: the key of this process does
\* not decrypt it.
OtherKeyBody == <<"OtherKey__", "i", "H">>

\* The process runs with a key other than the one a stored body was
\* encrypted with (the key is read from the environment at start).
KeyChanged(payloadId) ==
    /\ \A p \in Procs : send[p].pc \in {"idle", "done"}
    /\ \E d \in payloads :
          /\ d.id = payloadId
          /\ d.encryptedContent \notin {NoContent, OtherKeyBody}
          /\ payloads' = (payloads \ {d}) \cup {[d EXCEPT !.encryptedContent = OtherKeyBody]}
    /\ UNCHANGED <<conversations, metadata, send, pushed, gatewayVars, now, text>>

\* Text and picture sends, one at a time, and bodies that the key does not
\* decrypt.
NextHistory ==
    \/ \E p \in Procs :
          SendStep(p, TextAndImage, WithOrWithoutBody, NoAttachment, FALSE, FALSE)
    \/ \E payloadId \in 1..Cardinality(payloads) : KeyChanged(payloadId)

SpecHistory == Init /\ [][NextHistory]_vars

\* The document store and the metadata table are separate databases with no
\* reference between them: a payload document is removed while its metadata
\* row stays.
PayloadLost(payloadId) ==
    /\ \A p \in Procs : send[p].pc \in {"idle", "done"}
    /\ \E d \in payloads :
          /\ d.id = payloadId
          /\ payloads' = payloads \ {d}
    /\ UNCHANGED <<conversations, metadata, send, pushed, gatewayVars, now, text>>

\* Sends one at a time while time passes, soft deletes, and payload documents
\* that go missing.
NextPage ==
    \/ \E p \in Procs : SendStep(p, SendTypes, Contents, NoAttachment, FALSE, FALSE)
    \/ Delete
    \/ \E payloadId \in 1..MaxSends : PayloadLost(payloadId)
    \/ Tick

SpecPage == Init /\ [][NextPage]_vars

\* Sends and marks, one request at a time, with time passing between them.
NextMarks ==
    \/ \E p \in Procs : SendStep(p, SendTypes, Contents, NoAttachment, FALSE, FALSE)
    \/ MarkDelivered
    \/ MarkRead
    \/ Tick

SpecMarks == Init /\ [][NextMarks]_vars

\* -------------------------------------------------------- Realtime Gateway

\* A plausible slip: a token that fails verification is let through.
authMiddlewareFailOpen(token) ==
    IF token.kind = "none"
    THEN [ok |-> FALSE, userId |-> NoUser,
          error |-> "Authentication error: No token provided"]
    ELSE [ok |-> TRUE, userId |-> token.uid, error |-> ""]

\* authMiddleware: next(Error) without a token or when verifyIdToken throws,
\* otherwise socket.userId = uid and next().
authMiddleware(token) ==
    IF token.kind = "none"
    THEN [ok |-> FALSE, userId |-> NoUser,
          error |-> "Authentication error: No token provided"]
    ELSE IF token.kind # "valid"
    THEN [ok |-> FALSE, userId |-> NoUser,
          error |-> "Authentication error: Invalid token"]
    ELSE [ok |-> TRUE, userId |-> token.uid, error |-> ""]

\* A client opens a socket; the middleware starts verifying its token.
\* Sockets are interchangeable: they are numbered in order of arrival.
Connect(c, token) ==
    /\ conn[c].state = "Idle"
    /\ \A d \in Conns : d < c => conn[d].state # "Idle"
    /\ conn' = [conn EXCEPT ![c].state = "Authenticating", ![c].token = token]
    /\ UNCHANGED <<rooms, presence, broadcasts, cmd, typing, storeVars, now, text>>

USER_STATUS_TTL == 300

\* setUserOnline's record, written with SETEX key USER_STATUS_TTL.
onlineStatus(socketId) ==
    [exists |-> TRUE, online |-> TRUE, socketId |-> socketId,
     lastSeen |-> now, expiresAt |-> now + USER_STATUS_TTL]

\* setUserOffline's record, written with SETEX key USER_STATUS_TTL.
offlineStatus ==
    [exists |-> TRUE, online |-> FALSE, socketId |-> NoConn,
     lastSeen |-> now, expiresAt |-> now + USER_STATUS_TTL]

\* getUserStatus(userId): the record under the key, null when there is none,
\* when it has expired, or when the read throws.
getUserStatus(userId, readFails) ==
    IF readFails \/ ~presence[userId].exists \/ now >= presence[userId].expiresAt
    THEN NoStatus
    ELSE presence[userId]

\* The middleware settles. On next(Error) the socket is refused; on next()
\* the connection handler runs: registerChatHandlers joins the user's room,
\* registerStatusHandlers writes the presence record (a failed write is
\* swallowed) and broadcasts user_online.
Authenticate(c) ==
    /\ conn[c].state = "Authenticating"
    /\ LET auth == authMiddleware(conn[c].token)
       IN IF ~auth.ok
          THEN /\ conn' = [conn EXCEPT ![c].state = "Disconnected", ![c].error = auth.error]
               /\ UNCHANGED <<rooms, presence, broadcasts>>
          ELSE /\ conn' = [conn EXCEPT ![c].state = "Joined", ![c].userId = auth.userId]
               /\ rooms' = rooms \cup {<<c, auth.userId>>}
               /\ \E writeFails \in BOOLEAN :
                     presence' = IF writeFails \/ auth.userId \notin Users THEN presence
                                 ELSE [presence EXCEPT ![auth.userId] = onlineStatus(c)]
               /\ broadcasts' = broadcasts \cup
                     {[event |-> "user_online", userId |-> auth.userId, from |-> c]}
    /\ UNCHANGED <<cmd, typing, storeVars, now, text>>

\* A plausible slip: user_offline is broadcast while the write is pending.
DisconnectBroadcastsFirst(c) ==
    /\ conn[c].state = "Joined"
    /\ conn' = [conn EXCEPT ![c].state = "Leaving"]
    /\ rooms' = {r \in rooms : r[1] # c}
    /\ broadcasts' = broadcasts \cup
          {[event |-> "user_offline", userId |-> conn[c].userId, from |-> c]}
    /\ UNCHANGED <<presence, cmd, typing, storeVars, now, text>>

\* The disconnect handler of a joined socket up to the end of its await: the
\* socket has left its rooms and setUserOffline writes the record (a failed
\* write is swallowed).
Disconnect(c) ==
    /\ conn[c].state = "Joined"
    /\ conn' = [conn EXCEPT ![c].state = "Leaving"]
    /\ rooms' = {r \in rooms : r[1] # c}
    /\ \E writeFails \in BOOLEAN :
          presence' = IF writeFails \/ conn[c].userId \notin Users THEN presence
                      ELSE [presence EXCEPT ![conn[c].userId] = offlineStatus]
    /\ UNCHANGED <<broadcasts, cmd, typing, storeVars, now, text>>

\* The disconnect handler after its await: socket.broadcast.emit of
\* user_offline, which goes to every connected socket but this one.
UserOffline(c) ==
    /\ conn[c].state = "Leaving"
    /\ conn' = [conn EXCEPT ![c].state = "Disconnected"]
    /\ broadcasts' = broadcasts \cup
          {[event |-> "user_offline", userId |-> conn[c].userId, from |-> c]}
    /\ UNCHANGED <<rooms, presence, cmd, typing, storeVars, now, text>>

\* Handlers that check a required field and return a failure envelope.
validatesInput(name) ==
    name \in {"send_message", "messages_read", "fetch_messages", "delete_message"}

\* Handlers that read a field of the data object inside their try block.
readsData(name) == name \notin {"fetch_conversations", "get_unread_count"}

\* Handlers whose awaited call can throw: getUnreadCount and getUserStatus
\* catch every error themselves.
serviceMayThrow(name) ==
    name \notin {"get_unread_count", "get_user_status", "get_users_status"}

\* messages_read emits its receipt before the callback, send_message emits
\* new_message after it.
emitsBeforeAck(name) == name = "messages_read"
emitsAfterAck(name) == name = "send_message"

\* The callbacks a handler makes once its awaited call has settled: the
\* statements of the try block in order, and the catch block on a throw.
handlerAcks(name, serviceThrows, emitThrows) ==
    IF serviceThrows THEN <<"failure">>
    ELSE IF emitsBeforeAck(name)
         THEN (IF emitThrows THEN <<"failure">> ELSE <<"success">>)
    ELSE IF emitsAfterAck(name) /\ emitThrows THEN <<"success", "failure">>
    ELSE <<"success">>

\* A command arrives on a joined socket. Input that fails the handler's
\* validation, or that makes the handler throw before its awaited call, is
\* answered at once; otherwise the handler awaits its service call.
CommandReceived(c, name, input) ==
    /\ conn[c].state = "Joined"
    /\ cmd.pc \in {"idle", "done"}
    /\ input = "invalid" => validatesInput(name)
    /\ input = "malformed" => readsData(name)
    /\ cmd' = IF input = "ok"
              THEN [IdleCmd EXCEPT !.socket = c, !.name = name, !.pc = "service"]
              ELSE [IdleCmd EXCEPT !.socket = c, !.name = name, !.pc = "done",
                                   !.acks = <<"failure">>]
    /\ UNCHANGED <<conn, rooms, presence, broadcasts, typing, storeVars, now, text>>

\* The awaited call of the handler settles and the handler runs to its end.
ServiceSettled ==
    /\ cmd.pc = "service"
    /\ \E serviceThrows \in BOOLEAN, emitThrows \in BOOLEAN :
        /\ serviceThrows => serviceMayThrow(cmd.name)
        /\ emitThrows => (~serviceThrows /\ (emitsBeforeAck(cmd.name) \/ emitsAfterAck(cmd.name)))
        /\ cmd' = [cmd EXCEPT !.pc = "done",
                              !.acks = handlerAcks(cmd.name, serviceThrows, emitThrows)]
    /\ UNCHANGED <<conn, rooms, presence, broadcasts, typing, storeVars, now, text>>

\* refresh_status arrives on a joined socket and refreshUserStatus reads the
\* user's record; it goes on to write only if the record says online.
RefreshStatusReceived(c) ==
    /\ conn[c].state = "Joined"
    /\ conn[c].userId \in Users
    /\ cmd.pc \in {"idle", "done"}
    /\ \E readFails \in BOOLEAN :
          LET status == getUserStatus(conn[c].userId, readFails)
          IN cmd' = [IdleCmd EXCEPT !.socket = c, !.name = "refresh_status",
                                    !.status = status,
                                    !.pc = IF status.exists /\ status.online
                                           THEN "refresh" ELSE "done"]
    /\ UNCHANGED <<conn, rooms, presence, broadcasts, typing, storeVars, now, text>>

\* A plausible slip: the record is written back without an expiry (SET).
refreshedStatusNoExpiry(status) ==
    [status EXCEPT !.lastSeen = now,
                   !.expiresAt = now + (MaxTime + 1) * USER_STATUS_TTL]

\* The record refreshUserStatus writes back: the one it read, with lastSeen
\* set and the expiry started again.
refreshedStatus(status) ==
    [status EXCEPT !.lastSeen = now, !.expiresAt = now + USER_STATUS_TTL]

\* refreshUserStatus writes the record it read back (a failed write is
\* swallowed).
RefreshStatusWrite ==
    /\ cmd.pc = "refresh"
    /\ LET userId == conn[cmd.socket].userId
       IN \E writeFails \in BOOLEAN :
             presence' = IF writeFails THEN presence
                         ELSE [presence EXCEPT ![userId] = refreshedStatus(cmd.status)]
    /\ cmd' = [cmd EXCEPT !.pc = "done"]
    /\ UNCHANGED <<conn, rooms, broadcasts, typing, storeVars, now, text>>

\* The clock advances by a number of seconds, up to MaxTime expiry periods.
Elapse(seconds, period) ==
    /\ now + seconds <= 1 + MaxTime * period
    /\ now' = now + seconds
    /\ UNCHANGED <<storeVars, gatewayVars, text>>

\* Waits around the expiry of a presence record: just short of it, and it.
StatusWaits == {USER_STATUS_TTL - 1, USER_STATUS_TTL}

\* Tokens that verify.
ValidTokens == {token \in Tokens : token.kind = "valid"}

\* Presence: sockets of the users connect, send heartbeats and disconnect
\* while time passes. The user_offline broadcast that ends a disconnect does
\* not touch the presence records; SpecDisconnect and SpecGateway have it.
NextPresence ==
    \/ \E c \in Conns, token \in ValidTokens : Connect(c, token)
    \/ \E c \in Conns : Authenticate(c)
    \/ \E c \in Conns : Disconnect(c)
    \/ \E c \in Conns : RefreshStatusReceived(c)
    \/ RefreshStatusWrite
    \/ \E seconds \in StatusWaits : Elapse(seconds, USER_STATUS_TTL)

SpecPresence == Init /\ [][NextPresence]_vars

\* Sockets of the users connect and disconnect while time passes.
NextDisconnect ==
    \/ \E c \in Conns, token \in ValidTokens : Connect(c, token)
    \/ \E c \in Conns : Authenticate(c)
    \/ \E c \in Conns : Disconnect(c)
    \/ \E c \in Conns : UserOffline(c)
    \/ Tick

SpecDisconnect == Init /\ [][NextDisconnect]_vars

\* Sends, as send_message commands or sendMessage mutations, while sockets
\* of the users connect and disconnect.
NextDelivery ==
    \/ \E p \in Procs : SendStep(p, SendTypes, Contents, NoAttachment, FALSE, FALSE)
    \/ \E c \in Conns, token \in ValidTokens : Connect(c, token)
    \/ \E c \in Conns : Authenticate(c)
    \/ \E c \in Conns : Disconnect(c)
    \/ \E c \in Conns : UserOffline(c)

SpecDelivery == Init /\ [][NextDelivery]_vars

\* The markMessagesAsRead mutation of the resolver, called with messageIds and
\* userId: the service call, then true (false when it throws). The service
\* does not use userId.
MarkMessagesAsReadMutation(messageIds, userId) ==
    MarkMessagesAsRead(messageIds)

\* Sends, and markMessagesAsRead mutations of the users, while time passes.
NextResolver ==
    \/ \E p \in Procs : SendStep(p, SendTypes, Contents, NoAttachment, FALSE, FALSE)
    \/ \E userId \in Users, messageIds \in SUBSET MessageIds :
          MarkMessagesAsReadMutation(messageIds, userId)
    \/ Tick

SpecResolver == Init /\ [][NextResolver]_vars

\* --------------------------------------------------------- sanitization

\* Longest message body handed to sanitizeMessageContent.
MaxLen == 4

\* The characters that sanitizeMessageContent escapes, the ampersand, and
\* the other characters of "&lt;".
Alphabet == {"<", ">", "\"", "'", "/", "&", "l", "t", ";"}

\* The message bodies of at most MaxLen characters.
Texts == UNION {[1..n -> Alphabet] : n \in 0..MaxLen}

\* A message body is sanitized.
Sanitize ==
    /\ text = NoText
    /\ \E content \in Texts :
          text' = [input |-> content, once |-> sanitizeMessageContent(content),
                   twice |-> NoContent]
    /\ UNCHANGED <<storeVars, gatewayVars, now>>

\* What came out of sanitizeMessageContent is sanitized again.
SanitizeAgain ==
    /\ text.once # NoContent
    /\ text.twice = NoContent
    /\ text' = [text EXCEPT !.twice = sanitizeMessageContent(text.once)]
    /\ UNCHANGED <<storeVars, gatewayVars, now>>

NextSanitize ==
    \/ Sanitize
    \/ SanitizeAgain

SpecSanitize == Init /\ [][NextSanitize]_vars

\* ------------------------------------------------------ typing indicators

TYPING_TTL == 5

\* EXISTS key: 1 when the key is set and has not expired, else 0.
exists(key) == IF typing[key].exists /\ now < typing[key].expiresAt THEN 1 ELSE 0

\* SET key "1" with no expiry.
typingRecordNoExpiry == [exists |-> TRUE, expiresAt |-> now + (MaxTime + 2) * TYPING_TTL]

\* SETEX key TYPING_TTL "1".
typingRecord == [exists |-> TRUE, expiresAt |-> now + TYPING_TTL]

\* The user_typing and user_stopped_typing events emitted so far.
typingEvents == {e \in pushed : e.event \in {"user_typing", "user_stopped_typing"}}

\* The payload of both events, emitted to the room data.receiverId.
typingEvent(event, conversationId, receiverId, userId) ==
    [room |-> receiverId, event |-> event, conversationId |-> conversationId,
     userId |-> userId, timestamp |-> now]

\* A typing command handled to its end, for a socket authenticated as userId.
typingCmd(name, conversationId, userId, error) ==
    [IdleCmd EXCEPT !.name = name, !.pc = "done", !.error = error,
                    !.data = [conversationId |-> conversationId, userId |-> userId]]

\* The typing_start handler of a socket authenticated as userId: SETEX, then
\* user_typing to the receiver; an error of the store is logged.
TypingStart(userId, conversationId, receiverId, storeFails) ==
    /\ Cardinality(typingEvents) < MaxTypings
    /\ \E fails \in (IF storeFails THEN BOOLEAN ELSE {FALSE}) :
        IF fails
        THEN /\ cmd' = typingCmd("typing_start", conversationId, userId, "redis")
             /\ UNCHANGED <<typing, pushed>>
        ELSE /\ typing' = [typing EXCEPT ![typingKey(conversationId, userId)] = typingRecord]
             /\ pushed' = pushed \cup
                    {typingEvent("user_typing", conversationId, receiverId, userId)}
             /\ cmd' = typingCmd("typing_start", conversationId, userId, "")
    /\ UNCHANGED <<conversations, payloads, metadata, send, conn, rooms, presence,
                   broadcasts, now, text>>

\* The typing_stop handler: DEL, then user_stopped_typing to the receiver; an
\* error of the store is logged.
TypingStop(userId, conversationId, receiverId, storeFails) ==
    /\ Cardinality(typingEvents) < MaxTypings
    /\ \E fails \in (IF storeFails THEN BOOLEAN ELSE {FALSE}) :
        IF fails
        THEN /\ cmd' = typingCmd("typing_stop", conversationId, userId, "redis")
             /\ UNCHANGED <<typing, pushed>>
        ELSE /\ typing' = [typing EXCEPT ![typingKey(conversationId, userId)] = NoTyping]
             /\ pushed' = pushed \cup
                    {typingEvent("user_stopped_typing", conversationId, receiverId, userId)}
             /\ cmd' = typingCmd("typing_stop", conversationId, userId, "")
    /\ UNCHANGED <<conversations, payloads, metadata, send, conn, rooms, presence,
                   broadcasts, now, text>>

\* The reply of check_typing.
typingReply(isTyping) == [success |-> TRUE, isTyping |-> isTyping = 1]

\* The reply of check_typing when the store throws: no isTyping in it.
typingFailure == [success |-> FALSE, isTyping |-> FALSE]

\* The check_typing handler, with the conversation and the user the client
\* names: EXISTS, then the callback.
CheckTyping(conversationId, userId, storeFails) ==
    /\ \E fails \in (IF storeFails THEN BOOLEAN ELSE {FALSE}) :
        cmd' = IF fails
               THEN [typingCmd("check_typing", conversationId, userId, "redis")
                        EXCEPT !.acks = <<typingFailure>>]
               ELSE [typingCmd("check_typing", conversationId, userId, "")
                        EXCEPT !.acks = <<typingReply(exists(typingKey(conversationId, userId)))>>]
    /\ UNCHANGED <<storeVars, conn, rooms, presence, broadcasts, typing, now, text>>

\* Waits around the expiry of a typing record.
TypingWaits == {TYPING_TTL - 1, TYPING_TTL}

\* Typing commands of the users' sockets while time passes.
NextTyping ==
    \/ \E userId \in Users, c \in TypingConversations :
          \E receiverId \in Users \ {userId} : TypingStart(userId, c, receiverId, TRUE)
    \/ \E userId \in Users, c \in TypingConversations :
          \E receiverId \in Users \ {userId} : TypingStop(userId, c, receiverId, TRUE)
    \/ \E c \in TypingConversations, userId \in Users : CheckTyping(c, userId, TRUE)
    \/ \E seconds \in TypingWaits : Elapse(seconds, TYPING_TTL)

SpecTyping == Init /\ [][NextTyping]_vars

\* The messages_read events emitted so far.
readReceipts == {e \in pushed : e.event = "messages_read"}

\* The payload of the messages_read event, emitted to the room data.senderId.
\* seq tells two emits of the same payload apart.
readReceipt(messageIds, senderId, userId) ==
    [room |-> senderId, event |-> "messages_read", messageIds |-> messageIds,
     readAt |-> now, readBy |-> userId, seq |-> Cardinality(readReceipts) + 1]

\* The messages_read handler of a socket authenticated as userId, with a
\* messageIds array: markMessagesAsRead, then the receipt to the room named by
\* the client, then the callback.
MessagesRead(userId, messageIds, senderId) ==
    /\ Cardinality(readReceipts) < MaxReads
    /\ metadata' = updateMetadata(messageIds, setRead)
    /\ pushed' = pushed \cup {readReceipt(messageIds, senderId, userId)}
    /\ UNCHANGED <<conversations, payloads, send, gatewayVars, now, text>>

\* Sends, and messages_read commands of the users' sockets.
NextRead ==
    \/ \E p \in Procs : SendStep(p, SendTypes, Contents, NoAttachment, FALSE, FALSE)
    \/ \E userId \in Users, messageIds \in SUBSET MessageIds, senderId \in Users :
          MessagesRead(userId, messageIds, senderId)

SpecRead == Init /\ [][NextRead]_vars

NextGateway ==
    \/ \E c \in Conns, token \in Tokens : Connect(c, token)
    \/ \E c \in Conns : Authenticate(c)
    \/ \E c \in Conns : Disconnect(c)
    \/ \E c \in Conns : UserOffline(c)
    \/ \E c \in Conns, name \in AckCommands, input \in Inputs : CommandReceived(c, name, input)
    \/ ServiceSettled
    \/ \E c \in Conns : RefreshStatusReceived(c)
    \/ RefreshStatusWrite

SpecGateway == Init /\ [][NextGateway]_vars

\* ------------------------------------------------------------------ claims

samePair(a1, b1, a2, b2) == {a1, b1} = {a2, b2}

\* The send has been given a conversation by findOrCreateConversation.
resolved(p) == send[p].conversationId # 0

\* C1: there is at most one Conversation row per unordered pair of users, it
\* is stored with the lexicographically smaller id as participant1Id, and
\* findOrCreateConversation(A,B) and findOrCreateConversation(B,A) return the
\* same conversation id, also when both first-contact lookups found no row.
C1_OneConversationPerPair ==
    /\ \A c1 \in conversations, c2 \in conversations :
          samePair(c1.participant1Id, c1.participant2Id,
                   c2.participant1Id, c2.participant2Id) => c1 = c2
    /\ \A c \in conversations : LexLeq(c.participant1Id, c.participant2Id)
    /\ \A p \in Procs, q \in Procs :
          (/\ resolved(p)
           /\ resolved(q)
           /\ samePair(send[p].senderId, send[p].receiverId,
                       send[q].senderId, send[q].receiverId))
          => send[p].conversationId = send[q].conversationId

\* Two first-contact sends in opposite directions both found no row; one
\* insert won, the other hit the unique index; one row exists.
C1_Witness ==
    \E p \in Procs, q \in Procs :
        /\ send[p].senderId = send[q].receiverId
        /\ send[p].receiverId = send[q].senderId
        /\ send[p].senderId # send[p].receiverId
        /\ resolved(p)
        /\ send[q].error = "duplicate key"
        /\ Cardinality(conversations) = 1

\* C2: a send whose insert lost the race for the pair (uniqueness violation)
\* is not failed: it is acknowledged as a success and its message is stored
\* in the surviving conversation.
C2_LosingSendProceeds ==
    \A p \in Procs :
        send[p].error = "duplicate key" =>
            /\ send[p].acks = <<"success">>
            /\ \E m \in metadata :
                  /\ m.id = send[p].metadataId
                  /\ \E c \in conversations : c.id = m.conversationId

\* The payload a metadata row references, if it is the one written for it.
ownPayload(m) ==
    {d \in payloads : /\ d.id = m.mongoMessageId
                      /\ d.conversationId = m.conversationId
                      /\ d.senderId = m.senderId
                      /\ d.receiverId = m.receiverId}

\* C3 as claimed: a metadata row exists if and only if its payload record
\* exists, in every observable state.
C3_MetadataIffPayload ==
    /\ \A m \in metadata : ownPayload(m) # {}
    /\ \A d \in payloads : \E m \in metadata : m.mongoMessageId = d.id

\* C3 as amended: every metadata row references the payload written for it;
\* a payload without a metadata row belongs to a createMessage that is
\* between its two writes or whose metadata write failed.
C3_MetadataHasPayload ==
    /\ \A m \in metadata : ownPayload(m) # {}
    /\ \A d \in payloads :
          \/ \E m \in metadata : m.mongoMessageId = d.id
          \/ \E p \in Procs :
                /\ send[p].payloadId = d.id
                /\ send[p].metadataId = 0
                /\ \/ send[p].pc = "metadataSave"
                   \/ send[p].pc = "done" /\ send[p].error = "storage"

\* A stored message next to the orphaned payload of a failed createMessage
\* that was written before it.
C3_Witness ==
    /\ \E m \in metadata : ownPayload(m) # {}
    /\ \E p \in Procs :
          /\ send[p].pc = "done"
          /\ send[p].payloadId # 0
          /\ send[p].metadataId = 0
          /\ \E m \in metadata : m.mongoMessageId > send[p].payloadId

\* C4: isDelivered, isRead and isDeleted of a metadata row only change from
\* false to true, and no step removes a metadata row or a payload record.
C4_FlagsOneWay ==
    [][/\ \A m \in metadata : \E n \in metadata' :
              /\ n.id = m.id
              /\ m.isDelivered => n.isDelivered
              /\ m.isRead => n.isRead
              /\ m.isDeleted => n.isDeleted
       /\ Cardinality(metadata') >= Cardinality(metadata)
       /\ payloads \subseteq payloads']_vars

\* A message marked delivered, read and deleted, next to an untouched one,
\* in a conversation that has been blocked.
C4_Witness ==
    /\ \E m \in metadata : m.isDelivered /\ m.isRead /\ m.isDeleted
    /\ \E m \in metadata : ~m.isDelivered /\ ~m.isRead /\ ~m.isDeleted
    /\ \E c \in conversations : c.isBlocked

\* C5: a send whose blocked check runs while the conversation's blocked flag
\* is set is rejected with the blocked-conversation error and writes neither
\* payload nor metadata nor preview; a send whose check runs while the flag
\* is clear is not rejected as blocked.
C5_BlockedSendRejected ==
    \A p \in Procs :
        /\ send[p].sawBlocked =>
              /\ send[p].pc = "done"
              /\ send[p].error = "Cannot send message to blocked conversation"
              /\ send[p].acks = <<"failure">>
              /\ send[p].payloadId = 0
              /\ send[p].metadataId = 0
        /\ send[p].error = "Cannot send message to blocked conversation"
              => send[p].sawBlocked

\* The first acknowledgment is the one the sender receives.
ackedAsFailure(p) == send[p].acks # <<>> /\ Head(send[p].acks) = "failure"

\* Pages and page sizes that between them cover every stored message.
Pages == 1..(Cardinality(metadata) + 1)
Limits == 1..(Cardinality(metadata) + 1)

\* The metadata row appears on some history page of its conversation.
inHistory(m) ==
    \E page \in Pages, limit \in Limits :
        LET result == getMessagesByConversation(m.conversationId, page, limit)
        IN \E i \in DOMAIN result.messages : result.messages[i].metadata.id = m.id

\* C6: a send acknowledged to the sender as a failure leaves nothing the
\* receiver can observe: no new_message for it, no message of it in the
\* receiver's history and none in the receiver's unread count.
C6_FailedSendInvisible ==
    \A p \in Procs :
        (send[p].pc = "done" /\ ackedAsFailure(p)) =>
            /\ ~\E e \in pushed : /\ e.event = "new_message"
                                  /\ e.room = send[p].receiverId
                                  /\ e.messageId = send[p].metadataId
            /\ \A m \in metadata : m.id = send[p].metadataId =>
                  /\ ~inHistory(m)
                  /\ ~unreadWhere(m, send[p].receiverId, 0)

\* The rows the claim counts for user u, in conversation c when c is given.
unreadRows(u, c) ==
    {m \in metadata : /\ m.receiverId = u
                      /\ ~m.isRead
                      /\ ~m.isDeleted
                      /\ (c # 0 => m.conversationId = c)}

\* C9 as claimed: getUnreadCount(u) and getUnreadCount(u, c) equal the number
\* of unread, undeleted rows received by u (in c), whatever the query does.
C9_UnreadCountIsRowCount ==
    \A u \in Users, c \in {0} \cup ConversationIds, queryFails \in BOOLEAN :
        getUnreadCount(u, c, queryFails) = Cardinality(unreadRows(u, c))

\* C9 as amended: the count is the number of those rows when the count query
\* completes, and 0 when it throws.
C9_UnreadCountWhenQueryCompletes ==
    \A u \in Users, c \in {0} \cup ConversationIds :
        /\ getUnreadCount(u, c, FALSE) = Cardinality(unreadRows(u, c))
        /\ getUnreadCount(u, c, TRUE) = 0

\* A user has an unread message, a read one and a deleted unread one.
C9_Witness ==
    \E u \in Users :
        /\ unreadRows(u, 0) # {}
        /\ \E m \in metadata : m.receiverId = u /\ m.isRead
        /\ getUnreadCount(u, 0, FALSE) < Cardinality({m \in metadata : m.receiverId = u})

\* C10: deleteMessage by anyone but the stored sender fails as unauthorized
\* and changes nothing; by the sender it succeeds and sets isDeleted; a
\* deleted message is on no history page, and its metadata row and payload
\* record stay in storage.
C10_DeleteBySenderOnly ==
    /\ [](\A m \in metadata, u \in Users :
            /\ u # m.senderId => deleteOutcome(m.id, u) = "Unauthorized to delete this message"
            /\ u = m.senderId => deleteOutcome(m.id, u) = "ok")
    /\ [](\A m \in metadata : m.isDeleted => ~inHistory(m) /\ ownPayload(m) # {})
    /\ [][\A messageId \in MessageIds, u \in Users :
            DeleteMessage(messageId, u) =>
                /\ payloads' = payloads
                /\ \A m \in metadata :
                      IF m.id = messageId /\ u = m.senderId
                      THEN [m EXCEPT !.isDeleted = TRUE] \in metadata'
                      ELSE m \in metadata']_vars

\* A message deleted by its sender after the other user was refused, while
\* another message of the conversation is still in the history.
C10_Witness ==
    \E m \in metadata :
        /\ m.isDeleted
        /\ ~inHistory(m)
        /\ \E n \in metadata : n.conversationId = m.conversationId /\ inHistory(n)

\* C11: marking is idempotent: mark_delivered(id) on a message that is already
\* delivered, and mark_read with a set containing an id that is already read,
\* leave that message's isDelivered/isRead and deliveredAt/readAt as they were.
C11_MarkingIdempotent ==
    [][/\ \A id \in MessageIds :
              MarkMessageAsDelivered(id) =>
                  \A m \in metadata : (m.id = id /\ m.isDelivered) => m \in metadata'
       /\ \A ids \in SUBSET MessageIds :
              MarkMessagesAsRead(ids) =>
                  \A m \in metadata : (m.id \in ids /\ m.isRead) => m \in metadata']_vars

\* The sends from a to b that have completed with a success acknowledgment.
sentTo(a, b) ==
    {p \in Procs : /\ send[p].pc = "done"
                    /\ send[p].acks = <<"success">>
                    /\ send[p].senderId = a
                    /\ send[p].receiverId = b}

noSendInFlight == \A p \in Procs : send[p].pc \in {"idle", "done"}

\* C12: if A has sent n messages to B and B, having no connection, has
\* issued no command, get_unread_count for B returns n (A being the only
\* other user); a messages_read of B naming all of B's unread messages and
\* senderId = A leaves get_unread_count for B at 0 and emits exactly one
\* messages_read event, to A's room, listing exactly those ids with
\* readBy = B.
C12_OfflineUnreadThenRead ==
    /\ [](\A a \in Users, b \in Users :
            (a # b /\ noSendInFlight /\ readReceipts = {}) =>
                getUnreadCount(b, 0, FALSE) = Cardinality(sentTo(a, b)))
    /\ [][\A b \in Users, ids \in SUBSET MessageIds, a \in Users :
            MessagesRead(b, ids, a) =>
                /\ \E e \in pushed' :
                      /\ pushed' \ pushed = {e}
                      /\ e.event = "messages_read"
                      /\ e.room = a
                      /\ e.messageIds = ids
                      /\ e.readBy = b
                /\ {m.id : m \in unreadRows(b, 0)} \subseteq ids
                      => getUnreadCount(b, 0, FALSE)' = 0]_vars

\* B received two messages from A and then marked both as read: one receipt
\* to A lists both, and B's count is 0.
C12_Witness ==
    \E a \in Users, b \in Users :
        /\ a # b
        /\ Cardinality(sentTo(a, b)) = 2
        /\ getUnreadCount(b, 0, FALSE) = 0
        /\ \E e \in readReceipts :
              /\ readReceipts = {e}
              /\ e.room = a
              /\ e.readBy = b
              /\ e.messageIds = {m.id : m \in {r \in metadata : r.receiverId = b}}

\* The send was acknowledged with { success: true, message }.
ackedAsSuccess(p) == send[p].acks # <<>> /\ Head(send[p].acks) = "success"

\* C13: for every successful text send that carries content t, the
\* acknowledgment and the new_message pushed to the receiver's room carry
\* the same message id and the same content, which is the decrypted stored
\* body and equals sanitize(t), never the placeholder.
C13_AckAndPushCarrySanitizedContent ==
    \A p \in Procs :
        (send[p].pc = "done" /\ ackedAsSuccess(p) /\ hasTextContent(send[p])) =>
            /\ send[p].returned.id = send[p].metadataId
            /\ send[p].returned.content = sanitizeMessageContent(send[p].content)
            /\ send[p].returned.content # Placeholder
            /\ decryptMessage(savedMessage(p).encryptedContent).ok
            /\ decryptMessage(savedMessage(p).encryptedContent).text = send[p].returned.content
            /\ \A e \in pushed :
                  (e.event = "new_message" /\ e.messageId = send[p].metadataId) =>
                      e.room = send[p].receiverId /\ e.message = send[p].returned

\* A text with every escaped character was sent, acknowledged and pushed:
\* the content carried is the sanitized text, which differs from the text.
C13_Witness ==
    \E p \in Procs :
        /\ send[p].pc = "done"
        /\ send[p].acks = <<"success">>
        /\ hasTextContent(send[p])
        /\ send[p].returned.content # send[p].content
        /\ Len(send[p].returned.content) > Len(send[p].content)
        /\ \E e \in pushed :
              /\ e.event = "new_message"
              /\ e.messageId = send[p].metadataId
              /\ e.message.content = send[p].returned.content

\* C14: a heartbeat never resurrects an offline presence record: no write of
\* refreshUserStatus turns a record that says offline into one that says
\* online.
C14_HeartbeatNeverResurrects ==
    [][RefreshStatusWrite =>
          \A u \in Users :
              (presence[u].exists /\ ~presence[u].online) => ~presence'[u].online]_vars

\* C15: every write of a presence record carries a 300-second expiry: once
\* 300 seconds have passed since the last write of a user's record,
\* get_user_status returns null for that user, so a record that says online
\* is never returned 300 seconds or more after its last write.
C15_PresenceExpires ==
    \A u \in Users :
        presence[u].exists =>
            /\ presence[u].expiresAt = presence[u].lastSeen + 300
            /\ now >= presence[u].lastSeen + 300 => getUserStatus(u, FALSE) = NoStatus
            /\ getUserStatus(u, FALSE).online => now - getUserStatus(u, FALSE).lastSeen < 300

\* One user's record, written online and never refreshed, has expired and
\* reads as null; the other user's record, refreshed by a heartbeat after
\* 299 seconds, is still returned as online.
C15_Witness ==
    \E u \in Users, v \in Users :
        /\ presence[u].exists
        /\ presence[u].online
        /\ getUserStatus(u, FALSE) = NoStatus
        /\ getUserStatus(v, FALSE).online
        /\ cmd.name = "refresh_status"
        /\ cmd.pc = "done"
        /\ conn[cmd.socket].userId = v
        /\ cmd.status.lastSeen < presence[v].lastSeen
        /\ now > 1 + USER_STATUS_TTL

\* The user_typing events of a key: the typing_start writes made to it, with
\* their times.
typingStarts(key) ==
    {e \in pushed : /\ e.event = "user_typing"
                    /\ typingKey(e.conversationId, e.userId) = key}

\* The key named by the data of the typing command handled last.
cmdKey == typingKey(cmd.data.conversationId, cmd.data.userId)

\* A record exists only after a typing_start of its user on its conversation,
\* and less than TYPING_TTL seconds after the most recent such write.
typingWithinExpiry ==
    \A key \in TypingKeys :
        exists(key) = 1 => \E e \in typingStarts(key) : now < e.timestamp + TYPING_TTL

C17_MutationNotifiesSender ==
    [][\A a \in Users, b \in Users, ids \in SUBSET MessageIds :
          (/\ MarkMessagesAsReadMutation(ids, b)
           /\ ids # {}
           /\ ids \subseteq {m.id : m \in {r \in metadata : r.senderId = a /\ r.receiverId = b}})
          => \E e \in pushed' \ pushed :
                /\ e.event = "messages_read"
                /\ e.room = a
                /\ e.messageIds = ids]_vars

\* C18: sanitizeMessageContent is idempotent: for every string x over an
\* alphabet that includes < > " ' / and &, sanitize(sanitize(x)) = sanitize(x).
C18_SanitizeIdempotent ==
    text.twice # NoContent => text.twice = text.once

\* A body with an escaped character and an ampersand was sanitized twice, and
\* the first pass changed it.
C18_Witness ==
    /\ text.twice # NoContent
    /\ text.once # text.input
    /\ \E i \in 1..Len(text.input) : text.input[i] = "&"
    /\ \E i \in 1..Len(text.input) : text.input[i] = "<"
    /\ Len(text.input) = 4

\* The createMessage of invocation p wrote its payload and then failed to
\* write its metadata row.
metadataWriteFailed(p) ==
    /\ send[p].pc = "done"
    /\ send[p].payloadId # 0
    /\ send[p].metadataId = 0

\* The payload record is the message of an entry of some history page of
\* some conversation.
payloadInHistory(payloadId) ==
    \E c \in ConversationIds, page \in Pages, limit \in Limits :
        LET result == getMessagesByConversation(c, page, limit)
        IN \E i \in DOMAIN result.messages : result.messages[i].message.id = payloadId

\* C19: if the metadata write fails after the payload write succeeded, the
\* send fails, the payload record stays in the payload store, and it is
\* never surfaced: it is on no history page, no row counted as unread
\* refers to it, and no new_message was pushed for it.
C19_OrphanedPayloadNeverSurfaced ==
    \A p \in Procs :
        metadataWriteFailed(p) =>
            /\ ackedAsFailure(p)
            /\ send[p].acks = <<"failure">>
            /\ \E d \in payloads : d.id = send[p].payloadId
            /\ ~payloadInHistory(send[p].payloadId)
            /\ \A u \in Users, c \in {0} \cup ConversationIds :
                  getUnreadCount(u, c, FALSE) =
                      Cardinality({m \in metadata : /\ unreadWhere(m, u, c)
                                                    /\ m.mongoMessageId # send[p].payloadId})
            /\ \A e \in pushed : e.event = "new_message" =>
                  \A m \in metadata : m.id = e.messageId =>
                      m.mongoMessageId # send[p].payloadId

\* An orphaned payload in a conversation in which a later send of the same
\* sender was stored, pushed and is unread by the receiver.
C19_Witness ==
    \E p \in Procs, q \in Procs :
        /\ metadataWriteFailed(p)
        /\ send[q].pc = "done"
        /\ send[q].acks = <<"success">>
        /\ send[q].conversationId = send[p].conversationId
        /\ send[q].senderId = send[p].senderId
        /\ send[q].payloadId > send[p].payloadId
        /\ getUnreadCount(send[q].receiverId, send[q].conversationId, FALSE) = 1
        /\ \E e \in pushed : e.event = "new_message" /\ e.messageId = send[q].metadataId

\* The sends that findOrCreateConversation resolved to conversation c, which
\* exists from then on.
sendsTo(c) == {p \in Procs : send[p].conversationId = c}

\* C20: for any interleaving of concurrent sends to an existing, unblocked
\* conversation, every send succeeds and creates exactly one payload record
\* and one metadata row with a distinct id; after all sends complete the
\* conversation holds exactly as many new messages as there were sends.
C20_ConcurrentSendsAllStored ==
    \A c \in {conv.id : conv \in conversations} :
        /\ \A p \in sendsTo(c) : send[p].pc = "done" =>
              /\ send[p].acks = <<"success">>
              /\ Cardinality({d \in payloads : d.id = send[p].payloadId}) = 1
              /\ Cardinality({m \in metadata : m.id = send[p].metadataId}) = 1
              /\ \A m \in metadata : m.id = send[p].metadataId =>
                    /\ m.mongoMessageId = send[p].payloadId
                    /\ m.conversationId = c
                    /\ m.senderId = send[p].senderId
              /\ \A q \in sendsTo(c) \ {p} : send[q].pc = "done" =>
                    /\ send[q].payloadId # send[p].payloadId
                    /\ send[q].metadataId # send[p].metadataId
        /\ (\A p \in sendsTo(c) : send[p].pc = "done") =>
              /\ Cardinality({m \in metadata : m.conversationId = c}) =
                    Cardinality(sendsTo(c))
              /\ Cardinality({d \in payloads : d.conversationId = c}) =
                    Cardinality(sendsTo(c))

\* Two sends to one conversation have completed, their writes interleaved:
\* the one whose payload was saved first had its metadata row saved last.
C20_Witness ==
    \E p \in Procs, q \in Procs :
        /\ send[p].pc = "done"
        /\ send[q].pc = "done"
        /\ send[p].conversationId = send[q].conversationId
        /\ send[p].conversationId # 0
        /\ send[p].payloadId < send[q].payloadId
        /\ send[p].metadataId > send[q].metadataId

\* The sockets joined under user u.
joinedAs(u) == {c \in Conns : conn[c].state = "Joined" /\ conn[c].userId = u}

\* C21: while a user has at least one joined connection and the presence
\* record has not expired, the record reports online; the disconnect of one
\* of several open sessions of the user does not leave the user recorded
\* offline while still connected.
C21_OnlineWhileConnected ==
    \A u \in Users :
        (joinedAs(u) # {} /\ getUserStatus(u, FALSE) # NoStatus)
            => getUserStatus(u, FALSE).online

\* C22: no message is created in a conversation after a block of it has
\* completed and before it is unblocked: no payload record and no metadata
\* row is written to a conversation whose stored flag says blocked.
C22_NoMessageWhileBlocked ==
    [][/\ \A m \in metadata' \ metadata : ~isBlockedFlag(m.conversationId)
       /\ \A d \in payloads' \ payloads : ~isBlockedFlag(d.conversationId)]_vars

\* The errors of validateMessageContent.
EmptyContent == "Message content cannot be empty"
TooLong == "Message exceeds maximum length of 5000 characters"

\* C23: a send of type text whose content is missing, empty or
\* whitespace-only fails with the empty-content error, one whose content
\* exceeds 5000 characters with the too-long error, unless a store had
\* failed it before; in each case no payload record or metadata row is
\* created.
C23_TextValidatedBeforeStored ==
    \A p \in Procs :
        (send[p].messageType = "text" /\ send[p].pc \notin {"idle", "save", "isBlocked"}) =>
            /\ Len(trim(send[p].content)) = 0 =>
                  /\ send[p].pc = "done"
                  /\ send[p].acks = <<"failure">>
                  /\ send[p].error \in {EmptyContent, "storage"}
                  /\ send[p].payloadId = 0
                  /\ send[p].metadataId = 0
            /\ Len(send[p].content) > MAX_MESSAGE_LENGTH =>
                  /\ send[p].pc = "done"
                  /\ send[p].acks = <<"failure">>
                  /\ send[p].error \in {TooLong, "storage"}
                  /\ send[p].payloadId = 0
                  /\ send[p].metadataId = 0

\* C24: every persisted message satisfies the type/field invariant: a
\* payload of type text has no media fields, and a payload of another type
\* has no encrypted body.
C24_TypeFieldInvariant ==
    \A d \in payloads :
        /\ d.messageType = "text" =>
              /\ d.mediaUrl = NoContent
              /\ d.mediaType = NoContent
              /\ d.mediaSize = NoSize
              /\ d.fileName = NoContent
              /\ d.thumbnailUrl = NoContent
        /\ d.messageType # "text" => d.encryptedContent = NoContent

\* C25: after unblockConversation(c) the conversation has isBlocked = false
\* and its blockedBy is cleared; after blockConversation(c, u) it has
\* isBlocked = true and blockedBy = u.
C25_UnblockClearsBlocker ==
    [][\A c \in ConversationIds :
          /\ UnblockConversation(c) =>
                \A row \in conversations' : row.id = c =>
                    row.isBlocked = FALSE /\ row.blockedBy = NoUser
          /\ \A u \in Users : BlockConversation(c, u) =>
                \A row \in conversations' : row.id = c =>
                    row.isBlocked = TRUE /\ row.blockedBy = u]_vars

\* C26: a storage failure in the blocked check is propagated: when the read
\* of the blocked flag fails, the send fails with the storage error and no
\* message is created.
C26_BlockedCheckFailurePropagated ==
    [][\A p \in Procs :
          BlockedCheck(p, TRUE) =>
              /\ send'[p].pc = "done"
              /\ send'[p].error = "storage"
              /\ send'[p].acks = <<"failure">>
              /\ send'[p].payloadId = 0
              /\ send'[p].metadataId = 0]_vars

\* The stored body of the item is a text body that the key does not decrypt.
undecryptable(item) ==
    /\ item.message.messageType = "text"
    /\ item.message.encryptedContent \notin {NoContent, <<>>}
    /\ ~decryptMessage(item.message.encryptedContent).ok

\* C27: a history call never fails because a text body cannot be decrypted:
\* on every page each message whose body fails to decrypt is returned with
\* the placeholder content, every other message with its decrypted content
\* (the sanitized text that was sent), and the page has as many messages as
\* the repository returned.
C27_HistorySurvivesUndecryptable ==
    \A c \in ConversationIds, page \in Pages, limit \in Limits :
        LET result == getMessagesByConversation(c, page, limit)
            history == getConversationHistory(c, page, limit)
        IN /\ history.ok
           /\ Len(history.messages) = Len(result.messages)
           /\ history.total = result.total
           /\ \A i \in DOMAIN result.messages :
                 /\ history.messages[i].id = result.messages[i].metadata.id
                 /\ undecryptable(result.messages[i])
                       => history.messages[i].content = Placeholder
                 /\ ~undecryptable(result.messages[i]) =>
                       \A p \in Procs :
                           (send[p].pc = "done"
                               /\ send[p].metadataId = history.messages[i].id) =>
                               history.messages[i].content =
                                   IF hasTextContent(send[p])
                                   THEN sanitizeMessageContent(send[p].content)
                                   ELSE NoContent

\* A page of two text messages, the older of which does not decrypt: it is
\* returned as the placeholder next to the newer one's text.
C27_Witness ==
    \E c \in ConversationIds :
        LET history == getConversationHistory(c, 1, 2)
        IN /\ Len(history.messages) = 2
           /\ history.messages[1].content = <<"H", "i">>
           /\ history.messages[2].content = Placeholder

\* C28: a send that fails before its message is written (validation error,
\* blocked conversation or store failure) leaves the stores unchanged: every
\* Conversation row is that of a send which wrote its message or is still
\* running, so a failed first-contact send leaves no row.
C28_FailedSendLeavesNoTrace ==
    \A c \in conversations :
        \E p \in Procs :
            /\ send[p].conversationId = c.id
            /\ \/ send[p].payloadId # 0
               \/ send[p].pc \notin {"idle", "done"}

\* The connections an event emitted to the room reaches.
reached(room) == {c \in Conns : <<c, room>> \in rooms}

\* The step ends send p with success.
succeeds(p) ==
    /\ send[p].pc # "done"
    /\ send'[p].pc = "done"
    /\ send'[p].error = ""

\* C29: every successful send emits exactly one new_message, to the room
\* keyed by the receiver's user id: it reaches every connection joined under
\* that user id and no connection of another user.
C29_NewMessageToReceiverRoom ==
    [][\A p \in Procs :
          succeeds(p) =>
              \E e \in pushed' :
                  /\ pushed' \ pushed = {e}
                  /\ e.event = "new_message"
                  /\ e.message = send'[p].returned
                  /\ e.room = send[p].receiverId
                  /\ reached(e.room) = joinedAs(send[p].receiverId)]_vars

\* A message from one user to the other was emitted while each had a joined
\* connection: it reaches the receiver's connection and not the sender's.
C29_Witness ==
    \E e \in pushed, c \in Conns, d \in Conns :
        /\ e.event = "new_message"
        /\ e.message.senderId # e.message.receiverId
        /\ conn[c].state = "Joined" /\ conn[c].userId = e.message.receiverId
        /\ conn[d].state = "Joined" /\ conn[d].userId = e.message.senderId
        /\ c \in reached(e.room)
        /\ d \notin reached(e.room)

\* The rows of conversation c that a history call ranges over.
historyRows(c) == {m \in metadata : m.conversationId = c /\ ~m.isDeleted}

\* The row's payload document is in the document store.
hasPayload(m) == \E d \in payloads : d.id = m.mongoMessageId

\* Rows of the conversation created after m, and those created no earlier.
newerThan(m) == {n \in historyRows(m.conversationId) : n.createdAt > m.createdAt}
notOlderThan(m) == {n \in historyRows(m.conversationId) : n.createdAt >= m.createdAt}

\* C30: history(c, page, pageSize) returns the metadata rows of c that are
\* not deleted, newest first, restricted to positions (page-1)*pageSize+1 ..
\* page*pageSize of that order, each joined with its payload; a row whose
\* payload is missing is dropped and the order of the others is kept.
C30_HistoryPage ==
    \A c \in ConversationIds, page \in Pages, limit \in Limits :
        LET items == getMessagesByConversation(c, page, limit).messages
            first == (page - 1) * limit + 1
            last == page * limit
        IN /\ \A i \in DOMAIN items :
                 /\ items[i].metadata \in historyRows(c)
                 /\ items[i].message \in payloads
                 /\ items[i].message.id = items[i].metadata.mongoMessageId
                 /\ Cardinality(newerThan(items[i].metadata)) < last
                 /\ Cardinality(notOlderThan(items[i].metadata)) >= first
           /\ \A i \in DOMAIN items, j \in DOMAIN items :
                 i < j => /\ items[i].metadata.createdAt >= items[j].metadata.createdAt
                          /\ items[i].metadata # items[j].metadata
           /\ \A m \in historyRows(c) :
                 (/\ hasPayload(m)
                  /\ Cardinality(newerThan(m)) >= first - 1
                  /\ Cardinality(notOlderThan(m)) <= last)
                     => \E i \in DOMAIN items : items[i].metadata = m
           /\ \A m \in historyRows(c) :
                 ~hasPayload(m) => \A i \in DOMAIN items : items[i].metadata # m

\* A conversation with two rows created at different times, the newer one
\* without its payload: the page of size two holds the older row alone, and
\* the pages of size one hold nothing and the older row.
C30_Witness ==
    \E c \in ConversationIds, m \in metadata, n \in metadata :
        /\ historyRows(c) = {m, n}
        /\ m.createdAt > n.createdAt
        /\ ~hasPayload(m)
        /\ hasPayload(n)
        /\ getMessagesByConversation(c, 1, 2).total = 2
        /\ Len(getMessagesByConversation(c, 1, 2).messages) = 1
        /\ getMessagesByConversation(c, 1, 2).messages[1].metadata = n
        /\ getMessagesByConversation(c, 1, 1).messages = <<>>
        /\ Len(getMessagesByConversation(c, 2, 1).messages) = 1

\* The conversation row of the send after the step.
conversationAfter(p) ==
    CHOOSE c \in conversations' : c.id = send[p].conversationId

\* The fixed label of a message type that is not text.
fixedLabel(messageType) ==
    CASE messageType = "image" -> ImageLabel
      [] messageType = "video" -> VideoLabel
      [] messageType = "file" -> FileLabel

\* C31: after a successful send with no concurrent send to the conversation,
\* lastMessagePreview is the first 100 characters of the text for a text
\* message and the fixed label of the type for image, video and file, cut to
\* 500 characters, and lastMessageAt is the creation timestamp of the new
\* metadata row.
C31_PreviewOfLastMessage ==
    [][\A p \in Procs :
          succeeds(p) =>
              /\ conversationAfter(p).lastMessagePreview =
                    substring0(IF send[p].messageType = "text"
                               THEN substring0(send[p].content, TextPreviewLength)
                               ELSE fixedLabel(send[p].messageType),
                               PreviewLimit)
              /\ conversationAfter(p).lastMessageAt = createdAtOf(send[p].metadataId)]_vars

\* The metadata rows of the conversation.
messagesOf(conversationId) == {m \in metadata : m.conversationId = conversationId}

\* C32: lastMessageAt of a conversation never moves backwards, and once the
\* sends to it have completed it is the greatest creation timestamp among
\* the conversation's messages.
C32_LastMessageAtIsLatest ==
    /\ [](\A c \in conversations :
            ((\A p \in Procs : send[p].pc \in {"idle", "done"})
                /\ messagesOf(c.id) # {}) =>
                \A m \in messagesOf(c.id) : m.createdAt <= c.lastMessageAt)
    /\ [][\A c \in conversations, d \in conversations' :
             (c.id = d.id /\ c.lastMessageAt # NoDate) =>
                 d.lastMessageAt >= c.lastMessageAt]_vars

\* The sockets that a broadcast from socket c goes to.
otherSockets(c) == {d \in Conns \ {c} : conn[d].state = "Joined"}

\* The user_offline event of socket c.
userOffline(c) == [event |-> "user_offline", userId |-> conn[c].userId, from |-> c]

\* C33: when a joined connection disconnects, the presence record of its
\* user is written with online = false and a TTL of 300 s unless the write
\* fails, nothing is broadcast before that write has been attempted, and
\* then user_offline is broadcast once, from the disconnecting socket, so to
\* every other connection and not to it.
C33_OfflineWrittenThenBroadcast ==
    /\ [][\A c \in Conns :
             /\ (conn[c].state = "Joined" /\ conn'[c].state # "Joined") =>
                   /\ conn'[c].state = "Leaving"
                   /\ broadcasts' = broadcasts
                   /\ \/ presence' = presence
                      \/ presence' = [presence EXCEPT ![conn[c].userId] =
                                         [exists |-> TRUE, online |-> FALSE,
                                          socketId |-> NoConn, lastSeen |-> now,
                                          expiresAt |-> now + 300]]
             /\ (userOffline(c) \in broadcasts' \ broadcasts) =>
                   /\ conn[c].state = "Leaving"
                   /\ broadcasts' \ broadcasts = {userOffline(c)}
                   /\ presence' = presence
                   /\ c \notin otherSockets(c)'
             /\ (conn[c].state = "Leaving" /\ conn'[c].state # "Leaving") =>
                   userOffline(c) \in broadcasts']_vars
    /\ [](\A b \in broadcasts :
            b.event = "user_offline" => conn[b.from].state \in {"Leaving", "Disconnected"})

\* A socket has disconnected while another socket was joined: the record of
\* its user says offline and its user_offline has been broadcast.
C33_Witness ==
    \E c \in Conns, d \in Conns :
        /\ conn[c].state = "Disconnected"
        /\ userOffline(c) \in broadcasts
        /\ presence[conn[c].userId].exists
        /\ ~presence[conn[c].userId].online
        /\ presence[conn[c].userId].expiresAt = presence[conn[c].userId].lastSeen + 300
        /\ d \in otherSockets(c)

\* prefix is the beginning of content.
isPrefix(prefix, content) ==
    /\ Len(prefix) <= Len(content)
    /\ SubSeq(content, 1, Len(prefix)) = prefix

\* The characters that sanitizeMessageContent escapes.
Markup == {"<", ">", "\"", "'", "/"}

\* C34: the conversation preview stored for a text message is a prefix of
\* the content returned for the message in the ack and in history (the
\* sanitized text), and holds no unescaped markup character.
C34_PreviewIsSanitized ==
    [][\A p \in Procs :
          (succeeds(p) /\ send[p].messageType = "text") =>
              /\ isPrefix(conversationAfter(p).lastMessagePreview,
                          send'[p].returned.content)
              /\ \A i \in DOMAIN conversationAfter(p).lastMessagePreview :
                    conversationAfter(p).lastMessagePreview[i] \notin Markup]_vars

\* C35: every metadata row belongs to the conversation of its own sender and
\* receiver: the Conversation row named by its conversationId exists and has
\* the row's sender and receiver as its participants, and the payload record
\* of the row carries the same conversationId, senderId and receiverId.
C35_MessageInOwnConversation ==
    \A m \in metadata :
        /\ \E c \in conversations :
              /\ c.id = m.conversationId
              /\ {c.participant1Id, c.participant2Id} = {m.senderId, m.receiverId}
        /\ \A d \in payloads :
              d.id = m.mongoMessageId =>
                  /\ d.conversationId = m.conversationId
                  /\ d.senderId = m.senderId
                  /\ d.receiverId = m.receiverId
        /\ \E d \in payloads : d.id = m.mongoMessageId

\* Two conversations hold a message each, one of them between a user and
\* that same user.
C35_Witness ==
    \E m \in metadata, n \in metadata :
        /\ m.conversationId # n.conversationId
        /\ m.senderId # m.receiverId
        /\ n.senderId = n.receiverId
        /\ \E d \in payloads : d.id = m.mongoMessageId
        /\ \E d \in payloads : d.id = n.mongoMessageId

\* The unread messages of the user.
unreadOf(userId) ==
    {m \in metadata : m.receiverId = userId /\ ~m.isRead /\ ~m.isDeleted}

\* C36: unread_count is best-effort: get_unread_count is always acknowledged
\* once, with success and a number, never with a failure envelope; the
\* number is 0 when the count query failed and the number of unread
\* messages of the user otherwise.
C36_UnreadCountBestEffort ==
    /\ [](cmd.name = "get_unread_count" =>
            /\ cmd.pc = "done"
            /\ Len(cmd.acks) = 1
            /\ cmd.acks[1].success
            /\ cmd.acks[1].unreadCount \in Nat
            /\ cmd.error # "" => cmd.acks[1].unreadCount = 0)
    /\ [][(cmd' # cmd /\ cmd'.name = "get_unread_count" /\ cmd'.error = "") =>
             cmd'.acks[1].unreadCount = Cardinality(unreadOf(cmd'.data.userId))]_vars

\* The count query of a user with an unread message failed, and the command
\* was acknowledged with success and 0.
C36_Witness ==
    /\ cmd.name = "get_unread_count"
    /\ cmd.error = "storage"
    /\ cmd.acks = <<unreadReply(0)>>
    /\ unreadOf(cmd.data.userId) # {}

\* C7: every command that carries a callback gets it invoked exactly once:
\* with a success envelope if the operation completed, with a failure
\* envelope if a step threw.
C7_AckExactlyOnce ==
    (cmd.pc = "done" /\ cmd.name \in AckCommands) => Len(cmd.acks) = 1

\* C8: a socket whose handshake carries no token, or one that fails
\* verification, is refused with an authentication error and never joins:
\* it is in no room, wrote no presence record, caused no broadcast and had
\* no command handled.
C8_UnauthenticatedNeverJoins ==
    \A c \in Conns :
        conn[c].token.kind # "valid" =>
            /\ conn[c].state \in {"Idle", "Authenticating", "Disconnected"}
            /\ conn[c].state = "Disconnected" =>
                  conn[c].error \in {"Authentication error: No token provided",
                                     "Authentication error: Invalid token"}
            /\ \A r \in rooms : r[1] # c
            /\ \A u \in Users : presence[u].socketId # c
            /\ \A b \in broadcasts : b.from # c
            /\ cmd.socket # c

\* A socket whose token fails verification has been refused, and a command
\* of a joined socket has been handled.
C8_Witness ==
    \E c \in Conns, d \in Conns :
        /\ conn[c].token.kind = "invalid"
        /\ conn[c].state = "Disconnected"
        /\ conn[c].error = "Authentication error: Invalid token"
        /\ conn[d].state = "Joined"
        /\ cmd.socket = d
        /\ cmd.pc = "done"
====
